---- MODULE Spec2Model ----
(***************************************************************************)
(* NexusNotes: the notebook collection held by App, the views that mutate  *)
(* it through handleUpdateNotebook, and the asynchronous generator calls   *)
(* whose continuations commit a notebook value captured when they started. *)
(*                                                                         *)
(* One action is one event handler (or one continuation after an await)    *)
(* run to completion, followed by React's re-render: the mounted view then *)
(* sees the stored notebook, so a synchronous handler reads the stored     *)
(* value, while a continuation reads the value its closure captured.       *)
(***************************************************************************)
EXTENDS Integers, Sequences, FiniteSets, TLC

\* ------------------------------------------------------------------ bounds
MaxNotebooks == 2     \* notebooks in the collection
MaxSources   == 2     \* sources of one notebook
MaxNotes     == 2     \* notes of one notebook
MaxGenerated == 2     \* infographics, flashcard sets and drafts of one notebook, each
MaxQuizzes   == 2     \* quizzes of one notebook
MaxResults   == 2     \* quiz results of one notebook
MaxInflight  == 2     \* outstanding asynchronous calls
MaxClock     == 2     \* largest value of Date.now()
MaxQuestions == 2     \* questions the oracle puts in one quiz
MaxFiles     == 2     \* files selected in one upload
MaxOption    == 1     \* largest option index of a question

VARIABLES
  notebooks,           \* App: useState<Notebook[]>
  view,                \* App: 'dashboard' | 'workspace' | 'infographic' | ...
  currentNotebookId,   \* App: string | null
  now,                 \* Date.now()
  inflight,            \* awaited calls whose continuation has not run yet
  isGenerating,        \* the mounted view's isGenerating flag
  error,               \* the mounted view's error message
  activeQuizId,        \* QuizView
  activeResultId,      \* QuizView
  currentQuestionIdx,  \* QuizView
  userAnswers,         \* QuizView
  activeSetId,         \* FlashcardView
  currentCardIndex,    \* FlashcardView
  activeDraft,         \* DraftingView
  storage,             \* window.localStorage
  isDarkMode,          \* App: useState<boolean>
  editors,             \* NotePad: the state of the NoteItem of each note shown
  messages,            \* Workspace: useState<ChatMessage[]>
  isTyping,            \* Workspace: useState(false)
  call                 \* the repository call made by the step just taken, with
                       \* the collection and the selection it found

appVars == <<notebooks, view, currentNotebookId>>
quizVars == <<activeQuizId, activeResultId, currentQuestionIdx, userAnswers>>
cardVars == <<activeSetId, currentCardIndex>>
localVars == <<isGenerating, error, quizVars, cardVars, activeDraft>>

chatVars == <<messages, isTyping>>

vars == <<appVars, now, inflight, localVars, storage, isDarkMode, editors, chatVars, call>>

\* ------------------------------------------------------------------ values
None == -1                       \* null: no id is negative
Unanswered == -1                 \* new Array(n).fill(-1)
Hole == -2                       \* undefined: a slot read past the end of an array
DefaultTitle == "Untitled Notebook"

NoNotebook == [id |-> None]      \* what find returns when nothing matches
NoDraft == [id |-> None]         \* activeDraft: null

Views == {"dashboard", "workspace", "infographic", "flashcards", "quiz", "drafting"}
Studios == {"infographic", "flashcards", "quiz", "drafting"}

NoCall == [op |-> "none", by |-> "none", id |-> None, nb |-> NoNotebook,
           sel |-> None, was |-> <<>>]

\* ------------------------------------------------------------------ storage
DataKey == "nexus_notes_data"
ThemeKey == "nexus_notes_theme"

\* the keys looked at here; getItem of a key never set returns null
Keys == {DataKey, ThemeKey, "notebooks-data", "theme"}

\* An item of the store: null, a text that is not JSON, or the JSON text of
\* a value.
NoItem == [kind |-> "null"]
Text(t) == [kind |-> "text", text |-> t]
Json(v) == [kind |-> "json", value |-> v]

Null == -3                       \* JSON null

\* what JSON.stringify keeps of a notebook collection: every field of these
\* objects is a string, a number or an array, and survives, but an empty
\* slot of an array is written as null
toJSON(nbs) ==
  [i \in 1..Len(nbs) |->
     [nbs[i] EXCEPT !.quizResults =
        [j \in 1..Len(@) |->
           [@[j] EXCEPT !.userAnswers =
              [k \in 1..Len(@) |-> IF @[k] = Hole THEN Null ELSE @[k]]]]]]

\* JSON.stringify(notebooks)
stringify(nbs) == Json(toJSON(nbs))

\* faulty variants: the persistence effect writes nothing; a load that
\* cannot parse keeps the collection in memory; the theme effect always
\* writes "light"
PersistedThemeOnly(store, nbs, dark) ==
  [store EXCEPT ![ThemeKey] = Text(IF dark THEN "dark" ELSE "light")]

loadNotebooksUnguarded(saved) ==
  IF saved.kind = "json" THEN saved.value ELSE notebooks

themeNameLight(dark) == "light"

\* the notebooks initialiser: getItem, JSON.parse in a try, [] otherwise
loadNotebooks(saved) == IF saved.kind = "json" THEN saved.value ELSE <<>>

\* the theme effect's setItem value
themeName(dark) == IF dark THEN "dark" ELSE "light"

\* the store once the persistence effect and the theme effect have run
Persisted(store, nbs, dark) ==
  [store EXCEPT ![DataKey] = stringify(nbs), ![ThemeKey] = Text(themeName(dark))]

\* ------------------------------------------------------------------ helpers
Min(a, b) == IF a < b THEN a ELSE b
Max(a, b) == IF a > b THEN a ELSE b
Range(seq) == {seq[i] : i \in 1..Len(seq)}

RECURSIVE IndexOfFrom(_, _, _)
IndexOfFrom(seq, id, i) ==
  IF i > Len(seq) THEN 0
  ELSE IF seq[i].id = id THEN i
  ELSE IndexOfFrom(seq, id, i + 1)

\* Array.prototype.find(x => x.id === id): the first match, or undefined
find(seq, id) ==
  LET i == IndexOfFrom(seq, id, 1) IN IF i = 0 THEN NoNotebook ELSE seq[i]

\* Array.prototype.filter(x => x.id !== id)
without(seq, id) == SelectSeq(seq, LAMBDA x : x.id # id)

Ids(seq) == {seq[i].id : i \in 1..Len(seq)}

\* ------------------------------------------------------------------ App
currentNotebook == find(notebooks, currentNotebookId)

\* QuizView: notebook.quizzes?.find(q => q.id === activeQuizId)
activeQuiz == find(currentNotebook.quizzes, activeQuizId)

\* QuizView: notebook.quizResults?.find(r => r.id === activeResultId)
activeResult == find(currentNotebook.quizResults, activeResultId)

\* QuizView renders the question being taken
Taking ==
  /\ view = "quiz"
  /\ currentNotebook # NoNotebook
  /\ activeQuizId # None
  /\ activeQuiz # NoNotebook
  /\ activeResultId = None

\* FlashcardView: notebook.flashcardSets?.find(s => s.id === activeSetId)
activeSet == find(currentNotebook.flashcardSets, activeSetId)

\* FlashcardView renders the current card of the active set
Studying ==
  /\ view = "flashcards"
  /\ currentNotebook # NoNotebook
  /\ activeSet # NoNotebook

\* activeQuiz.questions[currentQuestionIdx].question with no such question,
\* activeSet.cards[currentCardIndex].front with no such card: the render
\* throws and React unmounts the whole tree
RenderThrows ==
  \/ Taking /\ currentQuestionIdx >= Len(activeQuiz.questions)
  \/ Studying /\ currentCardIndex \notin 0..(Len(activeSet.cards) - 1)

\* what App renders: a notebook view is mounted only with a notebook
Mounted(v) ==
  /\ view = v
  /\ v = "dashboard" \/ currentNotebook # NoNotebook
  /\ ~RenderThrows

\* a faulty variant of newNotebook: the new notebook starts with a note
newNotebookWithNote ==
  [id |-> now, title |-> DefaultTitle, sources |-> <<>>,
   notes |-> <<[id |-> now, content |-> "", createdAt |-> now]>>,
   infographics |-> <<>>, flashcardSets |-> <<>>, quizzes |-> <<>>,
   quizResults |-> <<>>, drafts |-> <<>>, createdAt |-> now]

newNotebook ==
  [id |-> now, title |-> DefaultTitle, sources |-> <<>>, notes |-> <<>>,
   infographics |-> <<>>, flashcardSets |-> <<>>, quizzes |-> <<>>,
   quizResults |-> <<>>, drafts |-> <<>>, createdAt |-> now]

\* faulty variants of handleUpdateNotebook: one moves the updated notebook
\* to the front, one inserts a notebook whose id is not in the collection
handleUpdateNotebookToFront(prev, updated) ==
  <<updated>> \o SelectSeq(prev, LAMBDA nb : nb.id # updated.id)

handleUpdateNotebookUpsert(prev, updated) ==
  IF \E i \in 1..Len(prev) : prev[i].id = updated.id
    THEN [i \in 1..Len(prev) |-> IF prev[i].id = updated.id THEN updated ELSE prev[i]]
    ELSE <<updated>> \o prev

handleUpdateNotebook(prev, updated) ==
  [i \in 1..Len(prev) |-> IF prev[i].id = updated.id THEN updated ELSE prev[i]]

\* the filter of handleDeleteNotebook
deleteNotebook(prev, id) == SelectSeq(prev, LAMBDA nb : nb.id # id)

\* ------------------------------------------------------------------ NoteItem
NoteTexts == {"a", "ab"}             \* what the user types into a note

\* useState(note.content), useState('saved'), and no timer set
NoteItem(note) == [content |-> note.content, status |-> "saved", timer |-> {}]

NoEditors == [id \in {} |-> NoteItem([content |-> ""])]

\* The three effects of NoteItem after a render with state ed and note text
\* nc, run in order on the values of that render, then the render their
\* setState calls ask for, until a render changes nothing. dC, dS and dN say
\* which dependencies changed: content, status, note.content or onUpdate.
\* The timer holds the text its callback closes over; the cleanup of the
\* second effect clears the timer that effect set.
RECURSIVE effects(_, _, _, _, _)
effects(ed, nc, dC, dS, dN) ==
  LET sync == (dN \/ dS \/ dC) /\ ed.status = "saved" /\ nc # ed.content
      debounce == dC \/ dN
      settle == (dN \/ dC) /\ nc = ed.content
      next == [content |-> IF sync THEN nc ELSE ed.content,
               status |-> IF settle THEN "saved"
                          ELSE IF debounce
                                 THEN IF ed.content = nc THEN "saved" ELSE "unsaved"
                                 ELSE ed.status,
               timer |-> IF debounce
                           THEN IF ed.content = nc THEN {} ELSE {ed.content}
                           ELSE ed.timer]
  IN IF next.content = ed.content /\ next.status = ed.status
       THEN next
       ELSE effects(next, nc, next.content # ed.content, next.status # ed.status, FALSE)

\* NotePad renders a NoteItem for each note of nb, keyed by the note's id: a
\* note shown before keeps its state and gets a new onUpdate, a new note
\* mounts, and the NoteItem of a note no longer there unmounts
NotePadRender(eds, nb) ==
  [id \in Ids(nb.notes) |->
     IF id \in DOMAIN eds
       THEN effects(eds[id], find(nb.notes, id).content, FALSE, FALSE, TRUE)
       ELSE NoteItem(find(nb.notes, id))]

\* App renders view v on notebook nb
Rendered(eds, v, nb) ==
  IF v = "workspace" /\ nb # NoNotebook THEN NotePadRender(eds, nb) ELSE NoEditors

\* A view that unmounts loses its state, and the setState calls its
\* continuations make afterwards do nothing.
Unmounted(reqs) == {[r EXCEPT !.alive = FALSE] : r \in reqs}


\* useState initial values of the view that mounts on notebook nb
MountView(nb) ==
  /\ isGenerating' = FALSE
  /\ error' = "none"
  /\ activeQuizId' = None
  /\ activeResultId' = None
  /\ currentQuestionIdx' = 0
  /\ userAnswers' = <<>>
  /\ activeSetId' = IF nb # NoNotebook /\ Len(nb.flashcardSets) > 0
                      THEN nb.flashcardSets[1].id ELSE None
  /\ currentCardIndex' = 0
  /\ activeDraft' = NoDraft
  /\ messages' = <<>>
  /\ isTyping' = FALSE

SwitchView(v, nb) ==
  /\ view' = v
  /\ inflight' = Unmounted(inflight)
  /\ MountView(nb)
  /\ editors' = Rendered(NoEditors, v, nb)

\* onUpdateNotebook(updated), called with the NoteItems in state eds, and
\* the render that follows
CommitFrom(eds, by, updated) ==
  /\ notebooks' = handleUpdateNotebook(notebooks, updated)
  /\ storage' = Persisted(storage, notebooks', isDarkMode)
  /\ UNCHANGED isDarkMode
  /\ editors' = Rendered(eds, view, find(notebooks', currentNotebookId))
  /\ UNCHANGED chatVars
  /\ call' = [op |-> "update", by |-> by, id |-> updated.id, nb |-> updated,
              sel |-> currentNotebookId, was |-> notebooks]

Commit(by, updated) == CommitFrom(editors, by, updated)

\* no repository call
NoRepositoryCall ==
  /\ call' = NoCall
  /\ UNCHANGED <<notebooks, storage, isDarkMode>>

NoCommit ==
  /\ NoRepositoryCall
  /\ UNCHANGED <<editors, chatVars>>

\* localStorage holds nothing, or nothing that parses
Init ==
  /\ notebooks = <<>>
  /\ view = "dashboard"
  /\ currentNotebookId = None
  /\ now = 0
  /\ inflight = {}
  /\ isGenerating = FALSE
  /\ error = "none"
  /\ activeQuizId = None
  /\ activeResultId = None
  /\ currentQuestionIdx = 0
  /\ userAnswers = <<>>
  /\ activeSetId = None
  /\ currentCardIndex = 0
  /\ activeDraft = NoDraft
  /\ isDarkMode = FALSE
  /\ editors = NoEditors
  /\ messages = <<>>
  /\ isTyping = FALSE
  /\ storage = Persisted([k \in Keys |-> NoItem], notebooks, isDarkMode)
  /\ call = NoCall

\* localStorage holds one notebook, made at clock value 0, with one text source
StoredNotebook ==
  [id |-> 0, title |-> "T", sources |-> <<[id |-> "s1", content |-> "txt", timestamp |-> 0]>>,
   notes |-> <<>>, infographics |-> <<>>, flashcardSets |-> <<>>, quizzes |-> <<>>,
   quizResults |-> <<>>, drafts |-> <<>>, createdAt |-> 0]

InitStored ==
  /\ notebooks = <<StoredNotebook>>
  /\ view = "dashboard"
  /\ currentNotebookId = None
  /\ now = 1
  /\ inflight = {}
  /\ isGenerating = FALSE
  /\ error = "none"
  /\ activeQuizId = None
  /\ activeResultId = None
  /\ currentQuestionIdx = 0
  /\ userAnswers = <<>>
  /\ activeSetId = None
  /\ currentCardIndex = 0
  /\ activeDraft = NoDraft
  /\ isDarkMode = FALSE
  /\ editors = NoEditors
  /\ messages = <<>>
  /\ isTyping = FALSE
  /\ storage = Persisted([k \in Keys |-> NoItem], notebooks, isDarkMode)
  /\ call = NoCall

\* localStorage holds a notebook whose one source is white space
BlankNotebook ==
  [StoredNotebook EXCEPT !.sources = <<[id |-> "s1", content |-> " ", timestamp |-> 0]>>]

InitSourced ==
  /\ notebooks \in {<<StoredNotebook>>, <<BlankNotebook>>}
  /\ view = "dashboard"
  /\ currentNotebookId = None
  /\ now = 1
  /\ inflight = {}
  /\ isGenerating = FALSE
  /\ error = "none"
  /\ activeQuizId = None
  /\ activeResultId = None
  /\ currentQuestionIdx = 0
  /\ userAnswers = <<>>
  /\ activeSetId = None
  /\ currentCardIndex = 0
  /\ activeDraft = NoDraft
  /\ isDarkMode = FALSE
  /\ editors = NoEditors
  /\ messages = <<>>
  /\ isTyping = FALSE
  /\ storage = Persisted([k \in Keys |-> NoItem], notebooks, isDarkMode)
  /\ call = NoCall

\* localStorage holds that notebook with a one-question quiz, made at clock
\* value 0 and not taken yet
StoredQuiz == [id |-> 0, questions |-> <<[correctAnswerIndex |-> 0]>>, createdAt |-> 0]

InitQuiz ==
  /\ notebooks = <<[StoredNotebook EXCEPT !.quizzes = <<StoredQuiz>>]>>
  /\ view = "dashboard"
  /\ currentNotebookId = None
  /\ now = 1
  /\ inflight = {}
  /\ isGenerating = FALSE
  /\ error = "none"
  /\ activeQuizId = None
  /\ activeResultId = None
  /\ currentQuestionIdx = 0
  /\ userAnswers = <<>>
  /\ activeSetId = None
  /\ currentCardIndex = 0
  /\ activeDraft = NoDraft
  /\ isDarkMode = FALSE
  /\ editors = NoEditors
  /\ messages = <<>>
  /\ isTyping = FALSE
  /\ storage = Persisted([k \in Keys |-> NoItem], notebooks, isDarkMode)
  /\ call = NoCall

\* localStorage holds that notebook with its quiz taken
TakenNotebook ==
  [StoredNotebook EXCEPT
     !.quizzes = <<StoredQuiz>>,
     !.quizResults = <<[id |-> 0, quizId |-> 0, score |-> 1, totalQuestions |-> 1,
                        date |-> 0, userAnswers |-> <<0>>]>>]

\* nothing stored or one notebook stored, no theme stored: the theme is what
\* matchMedia says
InitStore ==
  /\ notebooks \in {<<>>, <<TakenNotebook>>}
  /\ view = "dashboard"
  /\ currentNotebookId = None
  /\ now = 1
  /\ inflight = {}
  /\ isGenerating = FALSE
  /\ error = "none"
  /\ activeQuizId = None
  /\ activeResultId = None
  /\ currentQuestionIdx = 0
  /\ userAnswers = <<>>
  /\ activeSetId = None
  /\ currentCardIndex = 0
  /\ activeDraft = NoDraft
  /\ isDarkMode \in BOOLEAN
  /\ editors = NoEditors
  /\ messages = <<>>
  /\ isTyping = FALSE
  /\ storage = Persisted([k \in Keys |-> NoItem], notebooks, isDarkMode)
  /\ call = NoCall

\* The clock is read only to make ids and timestamps and to time round trips,
\* so a value that nothing carries is indistinguishable from the next one.
ClockRead ==
  \/ \E r \in inflight : r.at = now
  \/ \E i \in 1..Len(notebooks) :
       LET nb == notebooks[i] IN
         \/ nb.id = now
         \/ now \in Ids(nb.notes) \cup Ids(nb.infographics) \cup Ids(nb.flashcardSets)
                      \cup Ids(nb.quizzes) \cup Ids(nb.quizResults) \cup Ids(nb.drafts)
  \/ now \in {activeQuizId, activeResultId, activeSetId, activeDraft.id}

\* Date.now() advances
Tick ==
  /\ now < MaxClock
  /\ ClockRead
  /\ now' = now + 1
  /\ call' = NoCall
  /\ UNCHANGED <<appVars, inflight, localVars, storage, isDarkMode, editors, chatVars>>

handleCreateNotebook ==
  /\ Mounted("dashboard")
  /\ Len(notebooks) < MaxNotebooks
  /\ notebooks' = <<newNotebook>> \o notebooks
  /\ currentNotebookId' = newNotebook.id
  /\ SwitchView("workspace", newNotebook)
  /\ storage' = Persisted(storage, notebooks', isDarkMode)
  /\ UNCHANGED isDarkMode
  /\ call' = [op |-> "create", by |-> "handleCreateNotebook", id |-> newNotebook.id,
              nb |-> newNotebook, sel |-> currentNotebookId, was |-> notebooks]
  /\ UNCHANGED now

\* a faulty variant of handleSelectNotebook: the workspace is shown and the
\* selection is left as it was
handleSelectNotebookViewOnly(id) ==
  /\ Mounted("dashboard")
  /\ SwitchView("workspace", currentNotebook)
  /\ NoRepositoryCall
  /\ UNCHANGED <<currentNotebookId, now>>

handleSelectNotebook(id) ==
  /\ Mounted("dashboard")
  /\ currentNotebookId' = id
  /\ SwitchView("workspace", find(notebooks, id))
  /\ NoRepositoryCall
  /\ UNCHANGED now

\* a faulty variant of handleDeleteNotebook: the selection is kept
handleDeleteNotebookKeepsSelection(id) ==
  /\ Mounted("dashboard")
  /\ notebooks' = deleteNotebook(notebooks, id)
  /\ storage' = Persisted(storage, notebooks', isDarkMode)
  /\ UNCHANGED isDarkMode
  /\ call' = [op |-> "delete", by |-> "handleDeleteNotebook", id |-> id, nb |-> NoNotebook,
              sel |-> currentNotebookId, was |-> notebooks]
  /\ UNCHANGED <<view, currentNotebookId, now, inflight, localVars, editors, chatVars>>

handleDeleteNotebook(id) ==
  /\ Mounted("dashboard")
  /\ notebooks' = deleteNotebook(notebooks, id)
  /\ IF currentNotebookId = id
       THEN /\ view' = "dashboard"
            /\ currentNotebookId' = None
       ELSE UNCHANGED <<view, currentNotebookId>>
  /\ storage' = Persisted(storage, notebooks', isDarkMode)
  /\ UNCHANGED isDarkMode
  /\ call' = [op |-> "delete", by |-> "handleDeleteNotebook", id |-> id, nb |-> NoNotebook,
              sel |-> currentNotebookId, was |-> notebooks]
  /\ UNCHANGED <<now, inflight, localVars, editors, chatVars>>

\* App.toggleTheme, from the theme button of the view shown, and the theme
\* effect
toggleTheme ==
  /\ Mounted(view)
  /\ isDarkMode' = ~isDarkMode
  /\ storage' = [storage EXCEPT ![ThemeKey] = Text(themeName(isDarkMode'))]
  /\ editors' = Rendered(editors, view, currentNotebook)
  /\ call' = NoCall
  /\ UNCHANGED <<appVars, now, inflight, localVars, chatVars>>

\* The page is loaded again: App's initialisers read the store, the mount
\* effects write it, and no continuation of the page before is left. With
\* no theme stored the theme is what matchMedia says.
Reload(prefersDark) ==
  /\ notebooks' = loadNotebooks(storage[DataKey])
  /\ isDarkMode' = IF storage[ThemeKey] # NoItem THEN storage[ThemeKey] = Text("dark")
                                                ELSE prefersDark
  /\ storage' = Persisted(storage, notebooks', isDarkMode')
  /\ view' = "dashboard"
  /\ currentNotebookId' = None
  /\ inflight' = {}
  /\ MountView(NoNotebook)
  /\ editors' = NoEditors
  /\ call' = [op |-> "load", by |-> "App", id |-> None, nb |-> NoNotebook,
              sel |-> currentNotebookId, was |-> notebooks]
  /\ UNCHANGED now

\* something other than this code empties the store
storageCleared ==
  /\ storage' = [k \in Keys |-> NoItem]
  /\ call' = NoCall
  /\ UNCHANGED <<appVars, now, inflight, localVars, isDarkMode, editors, chatVars>>

\* something other than this code leaves under the data key a text that is
\* not JSON
storageGarbled ==
  /\ storage' = [storage EXCEPT ![DataKey] = Text("{")]
  /\ call' = NoCall
  /\ UNCHANGED <<appVars, now, inflight, localVars, isDarkMode, editors, chatVars>>

\* Workspace onBack and onNavigateTo*, and the studios' onBack: setView(to)
Navigate(from, to) ==
  /\ Mounted(from)
  /\ SwitchView(to, currentNotebook)
  /\ NoRepositoryCall
  /\ UNCHANGED <<currentNotebookId, now>>

\* ------------------------------------------------------------------ requests
\* An awaited call: its kind, the notebook value its continuation closes over,
\* the clock value at which it was issued, whether its continuation still has
\* a mounted component to call setState on (a file read and handleAddSource
\* call none), and the argument the continuation needs.
\* rid tells apart two calls that are otherwise equal (two files with the same
\* text read at once)
RequestAmong(reqs, kind, nb, arg, alive) ==
  LET req(i) == [rid |-> i, kind |-> kind, nb |-> nb, at |-> now, alive |-> alive, arg |-> arg]
  IN req(CHOOSE i \in 1..(MaxInflight + 1) :
           /\ req(i) \notin reqs
           /\ \A j \in 1..(i - 1) : req(j) \in reqs)

Request(kind, nb, arg, alive) == RequestAmong(inflight, kind, nb, arg, alive)

CanIssue == Cardinality(inflight) < MaxInflight

\* a network round trip takes longer than one clock value; a continuation
\* that runs after the tree has unmounted changes nothing
Arrived(r) == now > r.at /\ ~RenderThrows

\* what the oracle does with one call
TextOutcomes == {"ok", "empty", "error"}
JsonOutcomes == {"ok", "empty", "error", "malformed"}
Failures == {"empty", "error", "malformed"}

\* try { ... } catch { setError(msg) } finally { setIsGenerating(false) }, in
\* the component instance that issued the call
Settle(r, failed, msg) ==
  IF r.alive
    THEN /\ isGenerating' = FALSE
         /\ error' = IF failed THEN msg ELSE error
    ELSE UNCHANGED <<isGenerating, error>>

\* ------------------------------------------------------------------ sources
FileContents == {"", "txt"}      \* the text of an uploaded file
SourceIds == {"s1", "s2", "s3", "s4", "s5", "s6"} \* Math.random().toString(36).substring(7)
Titles == {"T"}                  \* what the user types into the title input

\* String.prototype.trim
trim(c) == IF c = " " THEN "" ELSE c

\* notebook.sources.map(s => s.content).join('\n\n') is a non-empty string
allContent(nb) ==
  \/ Len(nb.sources) >= 2
  \/ Len(nb.sources) = 1 /\ nb.sources[1].content # ""

\* !!allText.trim(), allText the same join
allText(nb) == \E i \in 1..Len(nb.sources) : trim(nb.sources[i].content) # ""

\* Array.from(files).forEach: a reader.readAsText(file) for each selected
\* file, every onload calling the onAddSource of this render
RECURSIVE readAsText(_, _, _)
readAsText(reqs, nb, files) ==
  IF files = <<>>
    THEN reqs
    ELSE readAsText(reqs \cup {RequestAmong(reqs, "fileread", nb, Head(files), FALSE)},
                    nb, Tail(files))

\* SourceSidebar.handleFileUpload with the texts of the selected files
handleFileUpload(files) ==
  /\ Mounted("workspace")
  /\ Len(files) \in 1..MaxFiles
  /\ Cardinality(inflight) + Len(files) <= MaxInflight
  /\ Len(currentNotebook.sources) + Len(files) <= MaxSources
  /\ inflight' = readAsText(inflight, currentNotebook, files)
  /\ NoCommit
  /\ UNCHANGED <<view, currentNotebookId, now, localVars>>

\* a faulty variant of suggestTitle: the failure is handed on as the title
suggestTitlePropagates(outcome) == outcome

\* geminiService.suggestTitle: the text, the fallback for an empty text, or
\* the value of the catch block
suggestTitle(outcome) ==
  CASE outcome = "ok"    -> "T"
    [] outcome = "empty" -> "New Notebook"
    [] outcome = "error" -> "Untitled Notebook"

\* the ids of the sources of notebook id, stored or held by a continuation:
\* a new random id is none of them
SourceIdsInUse(id) ==
  UNION ({Ids(notebooks[i].sources) : i \in {j \in 1..Len(notebooks) : notebooks[j].id = id}}
           \cup {Ids(r.nb.sources) : r \in {q \in inflight : q.nb.id = id}})

\* one of the ids not in use: which one makes no difference, ids being only
\* compared
FreshSourceId(id) ==
  CHOOSE sid \in SourceIds : sid \notin SourceIdsInUse(id) \/ SourceIds \subseteq SourceIdsInUse(id)

\* reader.onload, then Workspace.handleAddSource up to its await or its end
readerOnload(r, sid) ==
  /\ r.kind = "fileread"
  /\ sid \notin SourceIdsInUse(r.nb.id)
  /\ LET source == [id |-> sid, content |-> r.arg, timestamp |-> now]
         updatedNotebook == [r.nb EXCEPT !.sources = Append(@, source)]
     IN IF Len(r.nb.sources) = 0 /\ r.nb.title = DefaultTitle
          THEN /\ inflight' = (inflight \ {r}) \cup
                     {[r EXCEPT !.kind = "title", !.nb = updatedNotebook, !.at = now, !.arg = ""]}
               /\ NoCommit
          ELSE /\ inflight' = inflight \ {r}
               /\ Commit("handleAddSource", updatedNotebook)
  /\ UNCHANGED <<view, currentNotebookId, now, localVars>>

\* Workspace.handleAddSource after await suggestTitle
addSourceResume(r, outcome) ==
  /\ r.kind = "title"
  /\ Arrived(r)
  /\ inflight' = inflight \ {r}
  /\ Commit("handleAddSource", [r.nb EXCEPT !.title = suggestTitle(outcome)])
  /\ UNCHANGED <<view, currentNotebookId, now, localVars>>

handleRemoveSource(id) ==
  /\ Mounted("workspace")
  /\ Commit("handleRemoveSource", [currentNotebook EXCEPT !.sources = without(@, id)])
  /\ UNCHANGED <<view, currentNotebookId, now, inflight, localVars>>

\* the title input's onChange
titleOnChange(t) ==
  /\ Mounted("workspace")
  /\ Commit("titleOnChange", [currentNotebook EXCEPT !.title = t])
  /\ UNCHANGED <<view, currentNotebookId, now, inflight, localVars>>

\* ------------------------------------------------------------------ notes
\* a faulty variant of handleAddNote: the note is put last
handleAddNoteLast(nb, note) == [nb EXCEPT !.notes = Append(@, note)]

handleAddNote(nb, note) == [nb EXCEPT !.notes = <<note>> \o @]

\* NotePad.createNewNote
createNewNote ==
  /\ Mounted("workspace")
  /\ Len(currentNotebook.notes) < MaxNotes
  /\ Commit("handleAddNote",
       handleAddNote(currentNotebook, [id |-> now, content |-> "", createdAt |-> now]))
  /\ UNCHANGED <<view, currentNotebookId, now, inflight, localVars>>

handleRemoveNote(id) ==
  /\ Mounted("workspace")
  /\ Commit("handleRemoveNote", [currentNotebook EXCEPT !.notes = without(@, id)])
  /\ UNCHANGED <<view, currentNotebookId, now, inflight, localVars>>

\* Workspace.handleUpdateNote: notes.map(n => n.id === id ? { ...n, content } : n)
handleUpdateNote(nb, id, content) ==
  [nb EXCEPT !.notes = [i \in DOMAIN @ |->
                          IF @[i].id = id THEN [@[i] EXCEPT !.content = content] ELSE @[i]]]

\* NoteItem.handleChange, from a keystroke in the textarea of note id, with
\* the render and the effects that follow it
handleChange(id, text) ==
  /\ Mounted("workspace")
  /\ id \in DOMAIN editors
  /\ text # editors[id].content
  /\ editors' = [editors EXCEPT ![id] =
                   effects([@ EXCEPT !.content = text],
                           find(currentNotebook.notes, id).content, TRUE, FALSE, FALSE)]
  /\ NoRepositoryCall
  /\ UNCHANGED <<view, currentNotebookId, now, inflight, localVars, chatVars>>

\* The callback of the timer of NoteItem's second effect, a second after it
\* was set: setStatus('saving'), onUpdate(note.id, content), and the render
\* that follows
\* No state the program reaches has a timer set (NoTimerPending), so no
\* next-state relation below has this step.
timeout(id) ==
  /\ Mounted("workspace")
  /\ id \in DOMAIN editors
  /\ \E text \in editors[id].timer :
       CommitFrom([editors EXCEPT ![id] = [@ EXCEPT !.status = "saving", !.timer = {}]],
                  "handleUpdateNote", handleUpdateNote(currentNotebook, id, text))
  /\ UNCHANGED <<view, currentNotebookId, now, inflight, localVars>>

\* geminiService.generateNote never throws: the text, "" for an empty
\* response, or the message of its catch block
generateNote(outcome) ==
  CASE outcome = "ok"    -> "summary"
    [] outcome = "empty" -> ""
    [] outcome = "error" -> "Failed to generate note."

\* `## Summary\n\n${summary}`
SummaryNote(summary) ==
  CASE summary = "summary"                  -> "## Summary summary"
    [] summary = ""                         -> "## Summary "
    [] summary = "Failed to generate note." -> "## Summary Failed to generate note."

\* NotePad.handleGenerateSummary up to its await
handleGenerateSummary ==
  /\ Mounted("workspace")
  /\ ~isGenerating                        \* disabled={isGenerating || !currentSourceContent}
  /\ allContent(currentNotebook)
  /\ CanIssue
  /\ Len(currentNotebook.notes) < MaxNotes
  /\ isGenerating' = TRUE
  /\ inflight' = inflight \cup {Request("summary", currentNotebook, "", TRUE)}
  /\ NoCommit
  /\ UNCHANGED <<view, currentNotebookId, now, error, quizVars, cardVars, activeDraft>>

\* NotePad.handleGenerateSummary after await generateNote
generateSummaryResume(r, outcome) ==
  /\ r.kind = "summary"
  /\ Arrived(r)
  /\ inflight' = inflight \ {r}
  /\ Commit("handleGenerateSummary",
       handleAddNote(r.nb, [id |-> now, content |-> SummaryNote(generateNote(outcome)),
                            createdAt |-> now]))
  /\ isGenerating' = IF r.alive THEN FALSE ELSE isGenerating
  /\ UNCHANGED <<view, currentNotebookId, now, error, quizVars, cardVars, activeDraft>>

\* ------------------------------------------------------------------ infographics
\* geminiService.generateInfographic: the data URI of the first inline image,
\* null when the response carries none, or the error rethrown
generateInfographic(outcome) ==
  CASE outcome = "ok"    -> [thrown |-> FALSE, value |-> "data:image/png;base64"]
    [] outcome = "empty" -> [thrown |-> FALSE, value |-> "null"]
    [] outcome = "error" -> [thrown |-> TRUE, value |-> "null"]

\* InfographicView.handleGenerate up to its await
infographicGenerate ==
  /\ Mounted("infographic")
  /\ ~isGenerating                                   \* disabled={isGenerating}
  /\ IF ~allText(currentNotebook)
       THEN /\ error' = "Please add sources"
            /\ UNCHANGED <<inflight, isGenerating>>
       ELSE /\ CanIssue
            /\ Len(currentNotebook.infographics) < MaxGenerated
            /\ isGenerating' = TRUE
            /\ error' = "none"
            /\ inflight' = inflight \cup {Request("infographic", currentNotebook, "", TRUE)}
  /\ NoCommit
  /\ UNCHANGED <<view, currentNotebookId, now, quizVars, cardVars, activeDraft>>

\* InfographicView.handleGenerate after await generateInfographic
infographicResume(r, outcome) ==
  /\ r.kind = "infographic"
  /\ Arrived(r)
  /\ inflight' = inflight \ {r}
  /\ LET res == generateInfographic(outcome)
         newInfographic == [id |-> now, imageUrl |-> res.value, createdAt |-> now]
     IN IF ~res.thrown /\ res.value # "null"
          THEN /\ Commit("infographicGenerate",
                    [r.nb EXCEPT !.infographics = <<newInfographic>> \o @])
               /\ Settle(r, FALSE, "none")
          ELSE /\ NoCommit
               /\ Settle(r, TRUE, IF res.thrown THEN "An error occurred" ELSE "Failed to generate image")
  /\ UNCHANGED <<view, currentNotebookId, now, quizVars, cardVars, activeDraft>>

\* InfographicView.handleDelete
infographicDelete(id) ==
  /\ Mounted("infographic")
  /\ id \in Ids(currentNotebook.infographics)
  /\ Commit("infographicDelete", [currentNotebook EXCEPT !.infographics = without(@, id)])
  /\ UNCHANGED <<view, currentNotebookId, now, inflight, localVars>>

\* ------------------------------------------------------------------ flashcards
CardPayloads == {<<"c1">>, <<"c1", "c2">>}

\* geminiService.generateFlashcards: JSON.parse(response.text), or a throw for
\* an empty response, a failed call or text that is not JSON
generateFlashcards(outcome, cards) ==
  IF outcome = "ok" THEN [thrown |-> FALSE, value |-> cards]
                    ELSE [thrown |-> TRUE, value |-> <<>>]

\* FlashcardView.handleGenerate up to its await
flashcardGenerate ==
  /\ Mounted("flashcards")
  /\ ~isGenerating
  /\ IF ~allText(currentNotebook)
       THEN /\ error' = "Please add sources"
            /\ UNCHANGED <<inflight, isGenerating>>
       ELSE /\ CanIssue
            /\ Len(currentNotebook.flashcardSets) < MaxGenerated
            /\ isGenerating' = TRUE
            /\ error' = "none"
            /\ inflight' = inflight \cup {Request("flashcards", currentNotebook, "", TRUE)}
  /\ NoCommit
  /\ UNCHANGED <<view, currentNotebookId, now, quizVars, cardVars, activeDraft>>

\* FlashcardView.handleGenerate after await generateFlashcards
flashcardResume(r, outcome, cards) ==
  /\ r.kind = "flashcards"
  /\ Arrived(r)
  /\ inflight' = inflight \ {r}
  /\ LET res == generateFlashcards(outcome, cards)
         newSet == [id |-> now, cards |-> res.value, createdAt |-> now]
     IN IF ~res.thrown
          THEN /\ Commit("flashcardGenerate",
                    [r.nb EXCEPT !.flashcardSets = <<newSet>> \o @])
               /\ Settle(r, FALSE, "none")
               /\ IF r.alive
                    THEN /\ activeSetId' = newSet.id
                         /\ currentCardIndex' = 0
                    ELSE UNCHANGED cardVars
          ELSE /\ NoCommit
               /\ Settle(r, TRUE, "An error occurred")
               /\ UNCHANGED cardVars
  /\ UNCHANGED <<view, currentNotebookId, now, quizVars, activeDraft>>

\* the onClick of the i-th row of the list of sets
setOnClick(i) ==
  /\ Mounted("flashcards")
  /\ i \in 1..Len(currentNotebook.flashcardSets)
  /\ activeSetId' = currentNotebook.flashcardSets[i].id
  /\ currentCardIndex' = 0
  /\ NoCommit
  /\ UNCHANGED <<view, currentNotebookId, now, inflight, isGenerating, error, quizVars,
                 activeDraft>>

\* FlashcardView.handleDeleteSet, from the delete button of a row
handleDeleteSet(id) ==
  /\ Mounted("flashcards")
  /\ id \in Ids(currentNotebook.flashcardSets)
  /\ LET updatedSets == without(currentNotebook.flashcardSets, id)
     IN /\ Commit("handleDeleteSet", [currentNotebook EXCEPT !.flashcardSets = updatedSets])
        /\ IF activeSetId = id
             THEN /\ activeSetId' = IF Len(updatedSets) > 0 THEN updatedSets[1].id ELSE None
                  /\ currentCardIndex' = 0
             ELSE UNCHANGED cardVars
  /\ UNCHANGED <<view, currentNotebookId, now, inflight, isGenerating, error, quizVars,
                 activeDraft>>

\* the updaters of nextCard and prevCard, with the number of cards of the set
\* that was active at the click
nextCardIndex(n, prev) == (prev + 1) % n
prevCardIndex(n, prev) == (prev - 1 + n) % n

\* FlashcardView.nextCard and prevCard: setTimeout(..., 200) with the active
\* set of this render in the closure
turnCard(step) ==
  /\ Mounted("flashcards")
  /\ activeSet # NoNotebook
  /\ CanIssue
  /\ inflight' = inflight \cup
       {Request("cardtimer", currentNotebook,
                [step |-> step, n |-> Len(activeSet.cards)], TRUE)}
  /\ NoCommit
  /\ UNCHANGED <<view, currentNotebookId, now, localVars>>

nextCard == turnCard("next")
prevCard == turnCard("prev")

\* the callback of that timer, 200 ms later
cardTimeout(r) ==
  /\ r.kind = "cardtimer"
  /\ Arrived(r)
  /\ inflight' = inflight \ {r}
  /\ currentCardIndex' =
       IF ~r.alive THEN currentCardIndex
       ELSE IF r.arg.step = "next" THEN nextCardIndex(r.arg.n, currentCardIndex)
                                   ELSE prevCardIndex(r.arg.n, currentCardIndex)
  /\ NoCommit
  /\ UNCHANGED <<view, currentNotebookId, now, isGenerating, error, quizVars, activeSetId,
                 activeDraft>>

\* ------------------------------------------------------------------ drafts
DraftFormats == {"cleanup", "email"}

\* geminiService.transformContent: the transformed text, or the failure signal
transformContent(outcome) ==
  IF outcome = "ok" THEN [thrown |-> FALSE, value |-> "draft"]
                    ELSE [thrown |-> TRUE, value |-> ""]

\* DraftingView.handleGenerate up to its await, with the input type, the
\* pasted text and the target format the user has set
draftGenerate(inputType, customText, targetFormat) ==
  /\ Mounted("drafting")
  /\ ~isGenerating
  /\ IF inputType = "notebook" THEN Len(currentNotebook.sources) > 0
                               ELSE trim(customText) # ""
  /\ CanIssue
  /\ Len(currentNotebook.drafts) < MaxGenerated
  /\ isGenerating' = TRUE
  /\ inflight' = inflight \cup {Request("draft", currentNotebook, targetFormat, TRUE)}
  /\ NoCommit
  /\ UNCHANGED <<view, currentNotebookId, now, error, quizVars, cardVars, activeDraft>>

\* DraftingView.handleGenerate after await transformContent
draftResume(r, outcome) ==
  /\ r.kind = "draft"
  /\ Arrived(r)
  /\ inflight' = inflight \ {r}
  /\ LET res == transformContent(outcome)
         newDraft == [id |-> now, type |-> r.arg, content |-> res.value, createdAt |-> now]
     IN IF ~res.thrown
          THEN /\ Commit("draftGenerate", [r.nb EXCEPT !.drafts = <<newDraft>> \o @])
               /\ activeDraft' = IF r.alive THEN newDraft ELSE activeDraft
          ELSE /\ NoCommit
               /\ UNCHANGED activeDraft
  /\ isGenerating' = IF r.alive THEN FALSE ELSE isGenerating
  /\ UNCHANGED <<view, currentNotebookId, now, error, quizVars, cardVars>>

\* ------------------------------------------------------------------ quizzes
\* a question, as far as the code reads it: the index of its correct option
\* among options 0..MaxOption
Questions == [correctAnswerIndex : 0..MaxOption]

\* what the oracle can return as data.questions
QuizPayloads == UNION {[1..n -> Questions] : n \in 1..MaxQuestions}

\* geminiService.generateQuiz: JSON.parse(response.text) with question ids
\* filled in, or a throw for an empty response, a failed call or text that
\* does not parse to an object with questions
generateQuiz(outcome, questions) ==
  IF outcome = "ok" THEN [thrown |-> FALSE, value |-> questions]
                    ELSE [thrown |-> TRUE, value |-> <<>>]

\* a faulty variant of fill: every slot holds option 0
fillAnswered(n) == [i \in 1..n |-> 0]

\* new Array(n).fill(-1)
fill(n) == [i \in 1..n |-> Unanswered]

\* arr[i], i counted from 0
at(arr, i) == IF i < Len(arr) THEN arr[i + 1] ELSE Hole

\* const copy = [...arr]; copy[i] = v
setAt(arr, i, v) ==
  [k \in 1..Max(Len(arr), i + 1) |-> IF k = i + 1 THEN v ELSE at(arr, k - 1)]

\* QuizView.handleGenerate up to its await
quizGenerate ==
  /\ Mounted("quiz")
  /\ ~isGenerating                                   \* disabled={isGenerating}
  /\ IF ~allText(currentNotebook)
       THEN /\ error' = "Please add sources"
            /\ UNCHANGED <<inflight, isGenerating>>
       ELSE /\ CanIssue
            /\ Len(currentNotebook.quizzes) < MaxQuizzes
            /\ isGenerating' = TRUE
            /\ error' = "none"
            /\ inflight' = inflight \cup {Request("quiz", currentNotebook, "", TRUE)}
  /\ NoCommit
  /\ UNCHANGED <<view, currentNotebookId, now, quizVars, cardVars, activeDraft>>

\* QuizView.handleGenerate after await generateQuiz
quizResume(r, outcome, questions) ==
  /\ r.kind = "quiz"
  /\ Arrived(r)
  /\ inflight' = inflight \ {r}
  /\ LET res == generateQuiz(outcome, questions)
         newQuiz == [id |-> now, questions |-> res.value, createdAt |-> now]
     IN IF ~res.thrown
          THEN /\ Commit("quizGenerate", [r.nb EXCEPT !.quizzes = <<newQuiz>> \o @])
               /\ Settle(r, FALSE, "none")
               /\ IF r.alive
                    THEN /\ activeQuizId' = newQuiz.id
                         /\ activeResultId' = None
                         /\ userAnswers' = fill(Len(newQuiz.questions))
                         /\ currentQuestionIdx' = 0
                    ELSE UNCHANGED quizVars
          ELSE /\ NoCommit
               /\ Settle(r, TRUE, "Failed to generate quiz.")
               /\ UNCHANGED quizVars
  /\ UNCHANGED <<view, currentNotebookId, now, cardVars, activeDraft>>

\* QuizView.handleSelectAnswer, from an option button of the question shown
handleSelectAnswer(optionIdx) ==
  /\ Mounted("quiz")
  /\ Taking
  /\ userAnswers' = setAt(userAnswers, currentQuestionIdx, optionIdx)
  /\ NoCommit
  /\ UNCHANGED <<view, currentNotebookId, now, inflight, isGenerating, error,
                 activeQuizId, activeResultId, currentQuestionIdx, cardVars, activeDraft>>

\* the updaters of the Previous and the Next button, on a quiz of n questions
previousIdx(prev) == Max(0, prev - 1)

nextIdx(n, prev) == Min(n - 1, prev + 1)

\* the Previous button
previousQuestion ==
  /\ Mounted("quiz")
  /\ Taking
  /\ currentQuestionIdx # 0                          \* disabled={currentQuestionIdx === 0}
  /\ currentQuestionIdx' = previousIdx(currentQuestionIdx)
  /\ NoCommit
  /\ UNCHANGED <<view, currentNotebookId, now, inflight, isGenerating, error,
                 activeQuizId, activeResultId, userAnswers, cardVars, activeDraft>>

\* the Next button, rendered on every question but the last
nextQuestion ==
  /\ Mounted("quiz")
  /\ Taking
  /\ currentQuestionIdx # Len(activeQuiz.questions) - 1
  /\ currentQuestionIdx' = nextIdx(Len(activeQuiz.questions), currentQuestionIdx)
  /\ NoCommit
  /\ UNCHANGED <<view, currentNotebookId, now, inflight, isGenerating, error,
                 activeQuizId, activeResultId, userAnswers, cardVars, activeDraft>>

\* a faulty variant of score: every answered question counts
scoreAnswered(questions, answers) ==
  Cardinality({idx \in 0..(Len(questions) - 1) : at(answers, idx) \in 0..MaxOption})

\* the score loop of handleSubmitQuiz
score(questions, answers) ==
  Cardinality({idx \in 0..(Len(questions) - 1) :
                 at(answers, idx) = questions[idx + 1].correctAnswerIndex})

\* QuizView.handleSubmitQuiz, from the Finish Quiz button, rendered on the
\* last question
handleSubmitQuiz ==
  /\ Mounted("quiz")
  /\ Taking
  /\ currentQuestionIdx = Len(activeQuiz.questions) - 1
  /\ Unanswered \notin Range(userAnswers)            \* disabled={userAnswers.includes(-1)}
  /\ Len(currentNotebook.quizResults) < MaxResults
  /\ LET newResult == [id |-> now, quizId |-> activeQuiz.id,
                       score |-> score(activeQuiz.questions, userAnswers),
                       totalQuestions |-> Len(activeQuiz.questions),
                       date |-> now, userAnswers |-> userAnswers]
     IN /\ Commit("handleSubmitQuiz",
             [currentNotebook EXCEPT !.quizResults = <<newResult>> \o @])
        /\ activeResultId' = newResult.id
        /\ activeQuizId' = None
  /\ UNCHANGED <<view, currentNotebookId, now, inflight, isGenerating, error,
                 currentQuestionIdx, userAnswers, cardVars, activeDraft>>

\* notebook.quizResults?.find(r => r.quizId === quizId)
RECURSIVE resultOfFrom(_, _, _)
resultOfFrom(results, quizId, i) ==
  IF i > Len(results) THEN NoNotebook
  ELSE IF results[i].quizId = quizId THEN results[i]
  ELSE resultOfFrom(results, quizId, i + 1)

resultOf(nb, quizId) == resultOfFrom(nb.quizResults, quizId, 1)

\* the onClick of the i-th row of the history list
historyOnClick(i) ==
  /\ Mounted("quiz")
  /\ i \in 1..Len(currentNotebook.quizzes)
  /\ LET quiz == currentNotebook.quizzes[i]
         result == resultOf(currentNotebook, quiz.id)
     IN IF result # NoNotebook
          THEN /\ activeResultId' = result.id
               /\ activeQuizId' = None
               /\ UNCHANGED <<userAnswers, currentQuestionIdx>>
          ELSE /\ activeQuizId' = quiz.id
               /\ activeResultId' = None
               /\ IF activeQuizId # quiz.id
                    THEN /\ userAnswers' = fill(Len(quiz.questions))
                         /\ currentQuestionIdx' = 0
                    ELSE UNCHANGED <<userAnswers, currentQuestionIdx>>
  /\ NoCommit
  /\ UNCHANGED <<view, currentNotebookId, now, inflight, isGenerating, error,
                 cardVars, activeDraft>>

\* a faulty variant of handleDeleteQuiz: the results of the quiz are kept
handleDeleteQuizKeepsResults(id) ==
  /\ Mounted("quiz")
  /\ id \in Ids(currentNotebook.quizzes)
  /\ Commit("handleDeleteQuiz", [currentNotebook EXCEPT !.quizzes = without(@, id)])
  /\ activeQuizId' = IF activeQuizId = id THEN None ELSE activeQuizId
  /\ UNCHANGED <<view, currentNotebookId, now, inflight, isGenerating, error,
                 activeResultId, currentQuestionIdx, userAnswers, cardVars, activeDraft>>

\* a faulty variant of handleDeleteQuiz: of the results of the quiz only the
\* first goes
handleDeleteQuizFirstResult(id) ==
  /\ Mounted("quiz")
  /\ id \in Ids(currentNotebook.quizzes)
  /\ LET first == resultOfFrom(currentNotebook.quizResults, id, 1)
     IN Commit("handleDeleteQuiz",
          [currentNotebook EXCEPT
             !.quizzes = without(@, id),
             !.quizResults = SelectSeq(@, LAMBDA res : res # first)])
  /\ activeQuizId' = IF activeQuizId = id THEN None ELSE activeQuizId
  /\ UNCHANGED <<view, currentNotebookId, now, inflight, isGenerating, error,
                 activeResultId, currentQuestionIdx, userAnswers, cardVars, activeDraft>>

\* QuizView.handleDeleteQuiz, from the delete button of a history row
handleDeleteQuiz(id) ==
  /\ Mounted("quiz")
  /\ id \in Ids(currentNotebook.quizzes)
  /\ Commit("handleDeleteQuiz",
       [currentNotebook EXCEPT
          !.quizzes = without(@, id),
          !.quizResults = SelectSeq(@, LAMBDA res : res.quizId # id)])
  /\ activeQuizId' = IF activeQuizId = id THEN None ELSE activeQuizId
  /\ UNCHANGED <<view, currentNotebookId, now, inflight, isGenerating, error,
                 activeResultId, currentQuestionIdx, userAnswers, cardVars, activeDraft>>

\* ------------------------------------------------------------------ specs
\* The notebook collection: create, select, delete, and the updates the
\* workspace makes to title and sources, one upload at a time.
NextRepo ==
  \/ Tick
  \/ handleCreateNotebook
  \/ \E id \in Ids(notebooks) : handleSelectNotebook(id)
  \/ \E id \in Ids(notebooks) : handleDeleteNotebook(id)
  \/ Navigate("workspace", "dashboard")
  \/ inflight = {} /\ handleFileUpload(<<"txt">>) /\ currentNotebook.sources = <<>>
  \/ \E r \in inflight : readerOnload(r, FreshSourceId(r.nb.id))
  \/ \E r \in inflight, o \in TextOutcomes : addSourceResume(r, o)
  \/ \E sid \in SourceIds : handleRemoveSource(sid)
  \/ \E t \in Titles : titleOnChange(t)

SpecRepo == Init /\ [][NextRepo]_vars

\* The views: notebooks are created, opened, given a title and deleted, and
\* the user goes from the workspace to each studio and back.
NextViews ==
  \/ Tick
  \/ handleCreateNotebook
  \/ \E id \in Ids(notebooks) : handleSelectNotebook(id)
  \/ \E id \in Ids(notebooks) : handleDeleteNotebook(id)
  \/ Navigate("workspace", "dashboard")
  \/ \E v \in Studios : Navigate("workspace", v)
  \/ \E v \in Studios : Navigate(v, "workspace")
  \/ \E t \in Titles : titleOnChange(t)

SpecViews == Init /\ [][NextViews]_vars

\* localStorage holds a notebook as handleCreateNotebook made it at clock
\* value 0
UntitledNotebook == [StoredNotebook EXCEPT !.title = DefaultTitle, !.sources = <<>>]

\* localStorage holds a notebook the user gave a title and no source yet
TitledNotebook == [StoredNotebook EXCEPT !.sources = <<>>]

InitUpload ==
  /\ notebooks \in {<<StoredNotebook>>, <<UntitledNotebook>>, <<TitledNotebook>>}
  /\ view = "dashboard"
  /\ currentNotebookId = None
  /\ now = 1
  /\ inflight = {}
  /\ isGenerating = FALSE
  /\ error = "none"
  /\ activeQuizId = None
  /\ activeResultId = None
  /\ currentQuestionIdx = 0
  /\ userAnswers = <<>>
  /\ activeSetId = None
  /\ currentCardIndex = 0
  /\ activeDraft = NoDraft
  /\ isDarkMode = FALSE
  /\ editors = NoEditors
  /\ messages = <<>>
  /\ isTyping = FALSE
  /\ storage = Persisted([k \in Keys |-> NoItem], notebooks, isDarkMode)
  /\ call = NoCall

\* what the user selects in the file dialog: one file or two
Uploads == {<<"txt">>, <<"txt", "">>}

\* The source sidebar of one stored notebook: files are uploaded, one or
\* several at once, and sources removed, while reads and title suggestions
\* are outstanding.
NextUpload ==
  \/ Tick
  \/ \E id \in Ids(notebooks) : handleSelectNotebook(id)
  \/ Navigate("workspace", "dashboard")
  \/ \E files \in Uploads : handleFileUpload(files)
  \/ \E r \in inflight : readerOnload(r, FreshSourceId(r.nb.id))
  \/ \E r \in inflight, o \in TextOutcomes : addSourceResume(r, o)
  \/ \E sid \in SourceIds : handleRemoveSource(sid) /\ sid \in Ids(currentNotebook.sources)

SpecUpload == InitUpload /\ [][NextUpload]_vars

\* Every list of the repository and the steps that add to it: notebooks are
\* created, files uploaded, notes made, artifacts generated and a quiz
\* taken.
NextLists ==
  \/ Tick
  \/ handleCreateNotebook
  \/ \E id \in Ids(notebooks) : handleSelectNotebook(id)
  \/ \E v \in Views \ {"workspace"} : Navigate("workspace", v)
  \/ \E v \in Studios : Navigate(v, "workspace")
  \/ inflight = {} /\ handleFileUpload(<<"txt">>)
  \/ \E r \in inflight : readerOnload(r, FreshSourceId(r.nb.id))
  \/ \E r \in inflight : addSourceResume(r, "ok")
  \/ createNewNote
  \/ inflight = {} /\ handleGenerateSummary
  \/ \E r \in inflight : generateSummaryResume(r, "ok")
  \/ inflight = {} /\ infographicGenerate
  \/ \E r \in inflight : infographicResume(r, "ok")
  \/ inflight = {} /\ flashcardGenerate
  \/ \E r \in inflight : flashcardResume(r, "ok", <<"c1">>)
  \/ inflight = {} /\ draftGenerate("notebook", "", "cleanup")
  \/ \E r \in inflight : draftResume(r, "ok")
  \/ inflight = {} /\ quizGenerate
  \/ \E r \in inflight : quizResume(r, "ok", <<[correctAnswerIndex |-> 0]>>)
  \/ handleSelectAnswer(0)
  \/ handleSubmitQuiz
  \/ \E i \in 1..MaxQuizzes : historyOnClick(i)

SpecLists == InitUpload /\ [][NextLists]_vars

\* localStorage holds that notebook with two flashcard sets, of one card and
\* of two
StoredSets ==
  <<[id |-> 1, cards |-> <<"c1">>, createdAt |-> 1],
    [id |-> 0, cards |-> <<"c1", "c2">>, createdAt |-> 0]>>

InitCards ==
  /\ notebooks = <<[StoredNotebook EXCEPT !.flashcardSets = StoredSets]>>
  /\ view = "dashboard"
  /\ currentNotebookId = None
  /\ now = 1
  /\ inflight = {}
  /\ isGenerating = FALSE
  /\ error = "none"
  /\ activeQuizId = None
  /\ activeResultId = None
  /\ currentQuestionIdx = 0
  /\ userAnswers = <<>>
  /\ activeSetId = None
  /\ currentCardIndex = 0
  /\ activeDraft = NoDraft
  /\ isDarkMode = FALSE
  /\ editors = NoEditors
  /\ messages = <<>>
  /\ isTyping = FALSE
  /\ storage = Persisted([k \in Keys |-> NoItem], notebooks, isDarkMode)
  /\ call = NoCall

\* The flashcard view of one stored notebook: cards are turned, sets
\* selected, deleted and generated, and the view left and entered again.
NextCards ==
  \/ Tick
  \/ \E id \in Ids(notebooks) : handleSelectNotebook(id)
  \/ Navigate("workspace", "flashcards")
  \/ Navigate("flashcards", "workspace")
  \/ flashcardGenerate
  \/ \E r \in inflight, cards \in CardPayloads : flashcardResume(r, "ok", cards)
  \/ \E i \in 1..(MaxGenerated + 1) : setOnClick(i)
  \/ \E id \in 0..MaxClock : handleDeleteSet(id)
  \/ nextCard
  \/ prevCard
  \/ \E r \in inflight : cardTimeout(r)

SpecCards == InitCards /\ [][NextCards]_vars

\* ------------------------------------------------------------------ chat
MaxMessages == 4                 \* messages shown and awaited in one chat
ChatTexts == {"q1", "q2"}        \* what the user types into the chat input

\* geminiService.queryNotebook never throws: the model's reply to the
\* message, or the text of its catch block
queryNotebook(message, outcome) ==
  IF outcome = "ok" THEN "re: " \o message
                    ELSE "Error communicating with Gemini. Please check your API key."

Replies == {r \in inflight : r.kind = "chat"}

\* ChatInterface.handleSend up to its await, with inputValue = text
handleSend(text) ==
  /\ Mounted("workspace")
  /\ CanIssue
  /\ Len(messages) + Cardinality(Replies) + 2 <= MaxMessages
  /\ messages' = Append(messages, [id |-> now, role |-> "user", text |-> text])
  /\ isTyping' = TRUE
  /\ inflight' = inflight \cup {Request("chat", currentNotebook, text, TRUE)}
  /\ NoRepositoryCall
  /\ UNCHANGED <<view, currentNotebookId, now, localVars, editors>>

\* the send button: disabled={!inputValue.trim() || isTyping}
sendOnClick(text) ==
  /\ ~isTyping
  /\ handleSend(text)

\* ChatInterface.handleKeyDown: Enter without Shift in the input
handleKeyDown(text) == handleSend(text)

\* handleSend after its await: onSendMessage(modelMsg), setIsTyping(false),
\* the state setters of the Workspace that rendered the chat
queryNotebookResume(r, outcome) ==
  /\ r \in Replies
  /\ Arrived(r)
  /\ inflight' = inflight \ {r}
  /\ IF r.alive
       THEN /\ messages' = Append(messages, [id |-> now + 1, role |-> "model",
                                              text |-> queryNotebook(r.arg, outcome)])
            /\ isTyping' = FALSE
       ELSE UNCHANGED chatVars
  /\ NoRepositoryCall
  /\ UNCHANGED <<view, currentNotebookId, now, localVars, editors>>

\* The chat of one stored notebook: messages are sent with the button and
\* with the Enter key, replies arrive, and the workspace is left and entered
\* again.
NextChat ==
  \/ Tick
  \/ \E id \in Ids(notebooks) : handleSelectNotebook(id)
  \/ Navigate("workspace", "dashboard")
  \/ \E text \in ChatTexts : sendOnClick(text)
  \/ \E text \in ChatTexts : handleKeyDown(text)
  \/ \E r \in inflight, outcome \in {"ok", "error"} : queryNotebookResume(r, outcome)

SpecChat == InitStored /\ [][NextChat]_vars

\* The note pad: notes are made, typed into and removed while a summary is
\* generated
NextNotes ==
  \/ Tick
  \/ \E id \in Ids(notebooks) : handleSelectNotebook(id)
  \/ Navigate("workspace", "dashboard")
  \/ createNewNote
  \/ \E id \in 0..MaxClock : handleRemoveNote(id)
  \/ \E id \in 0..MaxClock, text \in NoteTexts : handleChange(id, text)
  \/ handleGenerateSummary
  \/ \E r \in inflight, outcome \in TextOutcomes : generateSummaryResume(r, outcome)

SpecNotes == InitStored /\ [][NextNotes]_vars

\* The collection and the theme with the store they are written to, and the
\* page loaded again.
NextStore ==
  \/ Tick
  \/ handleCreateNotebook
  \/ \E id \in Ids(notebooks) : handleSelectNotebook(id)
  \/ \E id \in Ids(notebooks) : handleDeleteNotebook(id)
  \/ Navigate("workspace", "dashboard")
  \/ \E t \in Titles : titleOnChange(t)
  \/ toggleTheme
  \/ \E prefersDark \in BOOLEAN : Reload(prefersDark)

SpecStore == InitStore /\ [][NextStore]_vars

\* The same with a store that other code empties or garbles.
NextLoad ==
  \/ NextStore
  \/ storageCleared
  \/ storageGarbled

SpecLoad == InitStore /\ [][NextLoad]_vars

\* The generators of one stored notebook: the workspace's Auto-Summarize and
\* the four studios, entered and left while calls are outstanding.
NextStudio ==
  \/ Tick
  \/ \E id \in Ids(notebooks) : handleSelectNotebook(id)
  \/ \E v \in Studios : Navigate("workspace", v)
  \/ \E v \in Studios : Navigate(v, "workspace")
  \/ handleGenerateSummary
  \/ \E r \in inflight, o \in TextOutcomes : generateSummaryResume(r, o)
  \/ infographicGenerate
  \/ \E r \in inflight, o \in TextOutcomes : infographicResume(r, o)
  \/ flashcardGenerate
  \/ \E r \in inflight, o \in JsonOutcomes : flashcardResume(r, o, <<"c1">>)
  \/ quizGenerate
  \/ \E r \in inflight, o \in JsonOutcomes : quizResume(r, o, <<[correctAnswerIndex |-> 0]>>)
  \/ draftGenerate("notebook", "", "cleanup")
  \/ \E r \in inflight, o \in TextOutcomes : draftResume(r, o)

SpecStudio == InitStored /\ [][NextStudio]_vars

\* The same generators on a stored notebook whose source has text or only
\* white space.
SpecSourced == InitSourced /\ [][NextStudio]_vars

\* what the oracle returns to the quiz view: a one-question and a
\* two-question quiz
OracleQuizzes ==
  {<<[correctAnswerIndex |-> 0]>>,
   <<[correctAnswerIndex |-> 0], [correctAnswerIndex |-> MaxOption]>>}

\* The quiz view of one stored notebook: generating, taking, submitting,
\* revisiting and deleting quizzes, left and entered again while calls are
\* outstanding.
NextQuiz ==
  \/ Tick
  \/ \E id \in Ids(notebooks) : handleSelectNotebook(id)
  \/ Navigate("workspace", "quiz")
  \/ Navigate("quiz", "workspace")
  \/ quizGenerate
  \/ \E r \in inflight, q \in OracleQuizzes : quizResume(r, "ok", q)
  \/ \E optionIdx \in 0..MaxOption : handleSelectAnswer(optionIdx)
  \/ previousQuestion
  \/ nextQuestion
  \/ handleSubmitQuiz
  \/ \E i \in 1..MaxQuizzes : historyOnClick(i)
  \/ \E id \in 0..MaxClock : handleDeleteQuiz(id)

SpecQuiz == InitQuiz /\ [][NextQuiz]_vars

\* The quiz view with another generator: a summary is asked for in the
\* workspace and comes back while quizzes are generated, taken, submitted and
\* deleted.
NextResults ==
  \/ Tick
  \/ \E id \in Ids(notebooks) : handleSelectNotebook(id)
  \/ Navigate("workspace", "quiz")
  \/ Navigate("quiz", "workspace")
  \/ quizGenerate
  \/ \E r \in inflight : quizResume(r, "ok", <<[correctAnswerIndex |-> 0]>>)
  \/ handleSelectAnswer(0)
  \/ handleSubmitQuiz
  \/ \E i \in 1..MaxQuizzes : historyOnClick(i)
  \/ \E id \in 0..MaxClock : handleDeleteQuiz(id)
  \/ handleGenerateSummary
  \/ \E r \in inflight : generateSummaryResume(r, "ok")

SpecResults == InitQuiz /\ [][NextResults]_vars

\* ------------------------------------------------------------------ claims
GeneratorCalls ==
  {"handleGenerateSummary", "infographicGenerate", "flashcardGenerate",
   "quizGenerate", "draftGenerate"}

Collections(nb) ==
  <<nb.sources, nb.notes, nb.infographics, nb.flashcardSets, nb.quizzes,
    nb.quizResults, nb.drafts>>

\* every artifact of old is an artifact of new
Kept(old, new) ==
  \A k \in 1..7 : Range(Collections(old)[k]) \subseteq Range(Collections(new)[k])

\* C1: when the continuation of a generator commits, the stored notebook
\* keeps every artifact it held, so that of two generators outstanding at
\* once on one notebook both artifacts are in the notebook after both
\* have committed: no write is lost.
C1_NoWriteLost ==
  [][(call'.op = "update" /\ call'.by \in GeneratorCalls)
       => \A i \in 1..Len(notebooks) :
            notebooks[i].id = call'.id => Kept(notebooks[i], notebooks'[i])]_vars

\* C2: when the oracle call of a generator (note summary, infographic,
\* flashcards, quiz, draft) fails, with an error, an empty response or a
\* malformed one, its continuation leaves the stored collection as it was.
C2_FailureCommitsNothing ==
  [][\A r \in inflight :
       ( \/ \E o \in Failures \cap TextOutcomes :
              \/ generateSummaryResume(r, o)
              \/ infographicResume(r, o)
              \/ draftResume(r, o)
         \/ \E o \in Failures :
              \/ flashcardResume(r, o, <<"c1">>)
              \/ quizResume(r, o, <<[correctAnswerIndex |-> 0]>>) )
       => notebooks' = notebooks]_vars

\* C3: an update replaces the notebook that has the updated one's id by the
\* updated value in full, so that a get of that id returns exactly that
\* value; every other notebook, the length of the collection and its order
\* are unchanged.
C3_UpdateReplacesById ==
  [][call'.op = "update"
       => /\ Len(notebooks') = Len(notebooks)
          /\ \A i \in 1..Len(notebooks) :
               notebooks'[i] = IF notebooks[i].id = call'.id THEN call'.nb ELSE notebooks[i]
          /\ call'.id \in Ids(notebooks) => find(notebooks', call'.id) = call'.nb]_vars

\* an update has replaced one notebook of two by a value it did not have
C3_Witness ==
  /\ call.op = "update"
  /\ Len(notebooks) = 2
  /\ find(notebooks, call.id) = call.nb
  /\ find(call.was, call.id) # call.nb
  /\ \E i \in 1..2 : notebooks[i].id # call.id

\* C4: after delete(id) a get of id finds nothing, and no later update
\* brings the id back: an update never adds an id to the collection, and an
\* update whose id is not in the collection changes nothing.
C4_DeletedStaysDeleted ==
  [][/\ call'.op = "delete" => find(notebooks', call'.id) = NoNotebook
     /\ call'.op = "update"
          => /\ Ids(notebooks') \subseteq Ids(notebooks)
             /\ call'.id \notin Ids(notebooks) => notebooks' = notebooks]_vars

\* the title suggestion for a notebook has come back after the notebook
\* was deleted
C4_Witness ==
  /\ call.op = "update"
  /\ call.by = "handleAddSource"
  /\ call.id \notin Ids(call.was)
  /\ find(notebooks, call.id) = NoNotebook
  /\ Len(notebooks) > 0

\* C5: create puts at the front of the collection a new notebook with the
\* default title and seven empty collections; a get of its id returns it, and
\* the notebooks there before keep their values and their order behind it.
C5_CreateInsertsAtFront ==
  [][call'.op = "create"
       => /\ Len(notebooks') = Len(notebooks) + 1
          /\ notebooks'[1].title = "Untitled Notebook"
          /\ \A k \in 1..7 : Collections(notebooks'[1])[k] = <<>>
          /\ find(notebooks', call'.id) = notebooks'[1]
          /\ call'.nb = notebooks'[1]
          /\ \A i \in 1..Len(notebooks) : notebooks'[i + 1] = notebooks[i]]_vars

\* a notebook has been created in front of one made earlier and changed since
C5_Witness ==
  /\ call.op = "create"
  /\ Len(notebooks) = 2
  /\ notebooks[1].id = call.id
  /\ notebooks[2].id # call.id
  /\ Len(notebooks[2].sources) = 1

\* C6: deleting the notebook that is selected leaves the dashboard shown and
\* nothing selected; deleting another notebook leaves the view and the
\* selection as they were.
C6_DeleteAndSelection ==
  [][call'.op = "delete"
       => IF currentNotebookId = call'.id
            THEN view' = "dashboard" /\ currentNotebookId' = None
            ELSE view' = view /\ currentNotebookId' = currentNotebookId]_vars

\* the selected notebook has been deleted while another one stays
C6_Witness ==
  /\ call.op = "delete"
  /\ call.sel = call.id
  /\ call.sel # None
  /\ currentNotebookId = None
  /\ view = "dashboard"
  /\ Len(notebooks) = 1

\* C7: deleting a quiz removes that quiz and every result whose quizId is
\* its id, and changes nothing else: the other quizzes and results keep
\* their values and order, and so do the other fields of the notebook and
\* the other notebooks.
C7_DeleteQuizCascades ==
  [][\A id \in 0..MaxClock :
       handleDeleteQuiz(id)
         => LET old == currentNotebook
                new == find(notebooks', old.id)
            IN /\ id \notin Ids(new.quizzes)
               /\ \A i \in 1..Len(new.quizResults) : new.quizResults[i].quizId # id
               /\ new.quizzes = SelectSeq(old.quizzes, LAMBDA q : q.id # id)
               /\ new.quizResults = SelectSeq(old.quizResults, LAMBDA res : res.quizId # id)
               /\ [new EXCEPT !.quizzes = old.quizzes, !.quizResults = old.quizResults] = old
               /\ Len(notebooks') = Len(notebooks)
               /\ \A i \in 1..Len(notebooks) :
                    notebooks[i].id # old.id => notebooks'[i] = notebooks[i]]_vars

\* a quiz that had a result has been deleted with it, while another quiz
\* and its result stay
C7_Witness ==
  /\ call.by = "handleDeleteQuiz"
  /\ LET old == find(call.was, call.id)
     IN \E q \in Range(old.quizzes) :
          /\ q.id \notin Ids(call.nb.quizzes)
          /\ \E res \in Range(old.quizResults) : res.quizId = q.id
  /\ Len(call.nb.quizzes) = 1
  /\ Len(call.nb.quizResults) = 1
  /\ find(notebooks, call.id) = call.nb

\* the number of positions at which the answer is the correct option
RECURSIVE Correct(_, _)
Correct(questions, answers) ==
  IF questions = <<>> \/ answers = <<>> THEN 0
  ELSE (IF Head(answers) = Head(questions).correctAnswerIndex THEN 1 ELSE 0)
         + Correct(Tail(questions), Tail(answers))

\* C8: submitting the quiz being taken puts in front of the results of the
\* notebook a result with the id of that quiz, the number of its questions,
\* the answer vector as it stands, and as score the number of positions at
\* which the answer is the correct option.
C8_SubmitRecordsScore ==
  [][handleSubmitQuiz
       => LET new == find(notebooks', currentNotebook.id)
              res == new.quizResults[1]
          IN /\ new.quizResults = <<res>> \o currentNotebook.quizResults
             /\ res.quizId = activeQuizId
             /\ res.totalQuestions = Len(activeQuiz.questions)
             /\ res.userAnswers = userAnswers
             /\ res.score = Correct(activeQuiz.questions, userAnswers)]_vars

\* a two-question quiz has been submitted with one answer right and one wrong
C8_Witness ==
  /\ call.by = "handleSubmitQuiz"
  /\ LET res == call.nb.quizResults[1]
     IN /\ res.totalQuestions = 2
        /\ res.score = 1
        /\ Len(res.userAnswers) = 2
        /\ res.quizId \in Ids(call.nb.quizzes)
  /\ find(notebooks, call.id) = call.nb

\* C9: no attempt is submitted while a slot of the answer vector is -1:
\* every stored result has as many answers as totalQuestions says, none
\* of them -1.
C9_ResultsAreComplete ==
  \A i \in 1..Len(notebooks) :
    \A j \in 1..Len(notebooks[i].quizResults) :
      LET res == notebooks[i].quizResults[j]
      IN /\ Len(res.userAnswers) = res.totalQuestions
         /\ Unanswered \notin Range(res.userAnswers)

\* C10: a quiz cannot be taken again: a click in the history on a quiz that
\* has a result shows that result and starts no taking session, and the
\* stored notebook holds at most one result for a quiz.
C10_NoRetake ==
  /\ [][\A i \in 1..MaxQuizzes :
          (historyOnClick(i) /\ resultOf(currentNotebook, currentNotebook.quizzes[i].id) # NoNotebook)
            => /\ activeQuizId' = None
               /\ activeResultId' = resultOf(currentNotebook, currentNotebook.quizzes[i].id).id]_vars
  /\ [](\A n \in 1..Len(notebooks) :
          \A i, j \in 1..Len(notebooks[n].quizResults) :
            notebooks[n].quizResults[i].quizId = notebooks[n].quizResults[j].quizId => i = j)

\* C11: a generator that reads the sources of the notebook (note summary,
\* infographic, flashcards, quiz, draft in notebook mode), started on a
\* notebook with no source of non-white-space content, makes no oracle
\* call, sets no generating flag and leaves the collection unchanged.
C11_NoSourceNoCall ==
  [][( /\ \/ handleGenerateSummary
          \/ infographicGenerate
          \/ flashcardGenerate
          \/ quizGenerate
          \/ draftGenerate("notebook", "", "cleanup")
       /\ ~allText(currentNotebook) )
       => /\ inflight' = inflight
          /\ isGenerating' = FALSE
          /\ notebooks' = notebooks]_vars

GeneratorKinds == {"summary", "infographic", "flashcards", "quiz", "draft"}

\* C12: a generate action cannot be started again while the request it
\* issued is outstanding: of each artifact kind at most one generation
\* request on a given notebook is in flight.
C12_OneRequestPerKind ==
  \A r1, r2 \in inflight :
    (r1.kind \in GeneratorKinds /\ r1.kind = r2.kind /\ r1.nb.id = r2.nb.id) => r1 = r2

C14_LoadFailsOpen ==
  [][call'.op = "load" /\ storage[DataKey].kind # "json"
       => /\ notebooks' = <<>>
          /\ view' = "dashboard"
          /\ currentNotebookId' = None
          /\ storage'[DataKey] = stringify(<<>>)]_vars

\* the page has been loaded over a garbled store and has lost the notebooks
\* it had
C14_Witness ==
  /\ call.op = "load"
  /\ call.was # <<>>
  /\ notebooks = <<>>
  /\ view = "dashboard"

\* C18, as the code has it: the store holds the serialized collection under
\* the key "nexus_notes_data" and the theme under the key
\* "nexus_notes_theme", whose value is "dark" or "light" and matches the
\* theme flag.
C18_StoreKeys ==
  /\ storage["nexus_notes_data"] = Json(toJSON(notebooks))
  /\ storage["nexus_notes_theme"] \in {Text("dark"), Text("light")}
  /\ storage["nexus_notes_theme"] = Text("dark") <=> isDarkMode

\* the theme has been set to dark with notebooks in the collection
C18_Witness ==
  /\ isDarkMode
  /\ storage["nexus_notes_theme"] = Text("dark")
  /\ Len(notebooks) = 2
  /\ storage["nexus_notes_data"].value = notebooks
  /\ view = "workspace"

\* C18, as stated: the store holds the serialized collection under the key
\* "notebooks-data" and the theme under the key "theme", whose value is
\* "dark" or "light" and matches the theme flag.
C18_StoreKeysAsStated ==
  /\ storage["notebooks-data"] = Json(toJSON(notebooks))
  /\ storage["theme"] \in {Text("dark"), Text("light")}
  /\ storage["theme"] = Text("dark") <=> isDarkMode

\* C15: when the title oracle fails while the first source is being added,
\* suggestTitle returns the fixed fallback title and handleAddSource goes
\* on to commit the update: the notebook it captured, with the source
\* added and the fallback title.
C15_TitleFailureStillAdds ==
  [][\A r \in inflight :
       addSourceResume(r, "error")
         => /\ call'.op = "update"
            /\ call'.nb = [r.nb EXCEPT !.title = "Untitled Notebook"]
            /\ Len(call'.nb.sources) = 1
            /\ call'.id \in Ids(notebooks) => find(notebooks', call'.id) = call'.nb]_vars

\* the first source of a notebook is stored under the fallback title
C15_Witness ==
  /\ call.op = "update"
  /\ call.by = "handleAddSource"
  /\ call.nb.title = "Untitled Notebook"
  /\ Len(call.nb.sources) = 1
  /\ find(call.was, call.id).sources = <<>>
  /\ find(notebooks, call.id) = call.nb

\* no two elements of seq have one id
UniqueIds(seq) == \A i, j \in 1..Len(seq) : seq[i].id = seq[j].id => i = j

\* C16: every id is unique within its owning collection: no two notebooks
\* share an id, and within a notebook no two sources, notes, infographics,
\* flashcard sets, quizzes, quiz results or drafts do, even when two
\* entities are created at the same clock value.
C16_IdsUnique ==
  /\ UniqueIds(notebooks)
  /\ \A i \in 1..Len(notebooks) :
       \A k \in 1..7 : UniqueIds(Collections(notebooks[i])[k])

\* the handlers by which the user deletes something
Deletions ==
  {"handleDeleteNotebook", "handleRemoveSource", "handleRemoveNote", "infographicDelete",
   "handleDeleteSet", "handleDeleteQuiz", "handleDeleteDraft"}

\* C17: an artifact in the stored notebook stays there until the user
\* deletes it, its quiz or its notebook: a step that is not one of the
\* user's deletions removes no source, note, infographic, flashcard set,
\* quiz, quiz result or draft from a notebook.
C17_OnlyDeletionRemoves ==
  [][call'.by \notin Deletions
       => \A i \in 1..Len(notebooks) :
            LET new == find(notebooks', notebooks[i].id)
            IN new # NoNotebook /\ Kept(notebooks[i], new)]_vars

\* C19: when the user changes the text of a note and types nothing more
\* while the editor stays mounted, the typed text is stored after the quiet
\* period and the editor still shows it. The text can be stored from the
\* editor only while the editor holds it: a keystroke leaves the typed text
\* in the editor, not yet saved.
C19_TypedTextIsKept ==
  [][\A id \in 0..MaxClock, text \in NoteTexts :
       handleChange(id, text)
         => /\ editors'[id].content = text
            /\ editors'[id].status # "saved"]_vars

\* C20: a keystroke calls no update itself; it cancels the timer that is
\* pending and sets a new one, so that after it exactly one timer is pending
\* for the note, and that timer commits the text just typed.
C20_KeystrokeSetsOneTimer ==
  [][\A id \in 0..MaxClock, text \in NoteTexts :
       handleChange(id, text)
         => /\ notebooks' = notebooks
            /\ editors'[id].timer = {text}]_vars

\* no timer of a NoteItem is pending between two steps
NoTimerPending == \A id \in DOMAIN editors : editors[id].timer = {}

\* the quiz view takes the quiz with this id from its first question, with
\* nothing answered and no result selected
TakingFresh(id) ==
  /\ Taking
  /\ activeQuizId = id
  /\ activeResultId = None
  /\ currentQuestionIdx = 0
  /\ Len(userAnswers) = Len(activeQuiz.questions)
  /\ \A k \in 1..Len(userAnswers) : userAnswers[k] = -1

\* C21: when a quiz generation succeeds in the quiz view, and when the user
\* clicks in the history a quiz without a result that is not the one being
\* taken, the view takes that quiz with an answer vector as long as the
\* quiz has questions, every slot -1, the question index 0 and no result
\* selected.
C21_TakingStartsFresh ==
  [][/\ \A r \in inflight, questions \in OracleQuizzes :
          quizResume(r, "ok", questions) /\ r.alive
            => TakingFresh(now)' /\ activeQuiz'.questions = questions
     /\ \A i \in 1..MaxQuizzes :
          /\ historyOnClick(i)
          /\ resultOf(currentNotebook, currentNotebook.quizzes[i].id) = NoNotebook
          /\ activeQuizId # currentNotebook.quizzes[i].id
          => TakingFresh(currentNotebook.quizzes[i].id)'
               /\ activeQuiz' = currentNotebook.quizzes[i]]_vars

\* a generation has just succeeded with a two-question quiz, which is taken
C21_Witness ==
  /\ call.op = "update"
  /\ call.by = "quizGenerate"
  /\ TakingFresh(call.nb.quizzes[1].id)
  /\ Len(userAnswers) = MaxQuestions

\* C22: while a quiz is taken the question index is within [0, count-1];
\* the updater of Next gives the last index at the last question and the
\* updater of Previous gives 0 at the first; Next and Previous move the
\* index by one within the bounds; selecting an option writes the slot of
\* the current question and leaves every other slot and the index alone.
C22_IndexInBounds ==
  /\ [](Taking =>
          LET n == Len(activeQuiz.questions)
          IN /\ currentQuestionIdx \in 0..(n - 1)
             /\ nextIdx(n, n - 1) = n - 1
             /\ previousIdx(0) = 0
             /\ nextIdx(n, currentQuestionIdx) \in 0..(n - 1)
             /\ previousIdx(currentQuestionIdx) \in 0..(n - 1))
  /\ [][/\ nextQuestion => currentQuestionIdx' = currentQuestionIdx + 1
        /\ previousQuestion => currentQuestionIdx' = currentQuestionIdx - 1
        /\ \A optionIdx \in 0..MaxOption :
             handleSelectAnswer(optionIdx)
               => /\ currentQuestionIdx' = currentQuestionIdx
                  /\ Len(userAnswers') = Len(userAnswers)
                  /\ \A k \in 1..Len(userAnswers) :
                       userAnswers'[k] = IF k = currentQuestionIdx + 1
                                           THEN optionIdx ELSE userAnswers[k]]_vars

\* an unused source id is left in every state
SourceIdsSuffice == \A id \in 0..MaxClock : SourceIds \ SourceIdsInUse(id) # {}

\* C24: when k files are selected in one upload, the notebook has k more
\* sources once the k reads have completed: each read that completes, with
\* no source removed since the upload, leaves the stored notebook with one
\* more source than it had.
C24_EveryFileIsAdded ==
  [][/\ call'.op = "update"
     /\ call'.by = "handleAddSource"
     /\ find(notebooks, call'.id) # NoNotebook
     /\ \A i \in 1..(Len(call'.nb.sources) - 1) :
          call'.nb.sources[i] \in Range(find(notebooks, call'.id).sources)
     => Len(find(notebooks', call'.id).sources)
          = Len(find(notebooks, call'.id).sources) + 1]_vars

\* when the k-th list of a notebook got this item: Date.now() in timestamp,
\* date or createdAt
addedAt(k, item) ==
  CASE k = 1 -> item.timestamp
    [] k = 6 -> item.date
    [] OTHER -> item.createdAt

\* no item of the list was added after the one at position p
NewestAt(k, seq, p) == \A i \in 1..Len(seq) : addedAt(k, seq[p]) >= addedAt(k, seq[i])

C25_CardIndexInBounds ==
  view = "flashcards" /\ currentNotebook # NoNotebook /\ activeSet # NoNotebook
    => currentCardIndex \in 0..(Len(activeSet.cards) - 1)

\* C26: the quiz view shows exactly one of idle, taking and a result: the
\* selected quiz id and the selected result id are never both set, and a
\* selected id is the id of a quiz, or of a result, of the notebook.
C26_OneDisplayState ==
  view = "quiz" /\ currentNotebook # NoNotebook
    => /\ ~(activeQuizId # None /\ activeResultId # None)
       /\ activeQuizId # None => activeQuiz # NoNotebook
       /\ activeResultId # None => activeResult # NoNotebook

\* C27: the chat alternates user and model messages, every model message is
\* the reply to the user message just before it, and the typing flag is set
\* exactly while a reply is awaited
C27_ChatAlternates ==
  Mounted("workspace")
    => /\ \A i \in 1..Len(messages) :
            IF i % 2 = 1
              THEN messages[i].role = "user"
              ELSE /\ messages[i].role = "model"
                   /\ \E outcome \in {"ok", "error"} :
                        messages[i].text = queryNotebook(messages[i - 1].text, outcome)
       /\ isTyping <=> \E r \in Replies : r.alive


\* the ids an artifact of the k-th collection of a notebook can have
ArtifactIds(k) == IF k = 1 THEN SourceIds ELSE 0..MaxClock

\* the step just taken was a deletion by the user that took artifact x out of
\* the k-th collection of notebook n
Deleted(n, k, x) ==
  /\ call.op = "update"
  /\ call.by \in Deletions
  /\ call.id = n
  /\ find(call.was, n) # NoNotebook
  /\ x \in Ids(Collections(find(call.was, n))[k])
  /\ x \notin Ids(Collections(call.nb)[k])

\* artifact x is in the k-th collection of the stored notebook n
Stored(n, k, x) ==
  /\ find(notebooks, n) # NoNotebook
  /\ x \in Ids(Collections(find(notebooks, n))[k])

\* C28: an artifact the user has deleted from a notebook is not in that
\* notebook again after the step that follows the deletion, whatever
\* completion that step is
C28_DeletedNeverReappears ==
  [][\A n \in 0..MaxClock : \A k \in 1..7 : \A x \in ArtifactIds(k) :
       Deleted(n, k, x) => ~Stored(n, k, x)']_vars

\* C29: every stored quiz result is the result of a quiz stored in the same
\* notebook
C29_NoDanglingResult ==
  \A i \in 1..Len(notebooks) :
    \A j \in 1..Len(notebooks[i].quizResults) :
      notebooks[i].quizResults[j].quizId \in Ids(notebooks[i].quizzes)


\* the completion of a generator has stored again a quiz the user had
\* deleted, and with it the result of that quiz
C29_Witness ==
  /\ call.op = "update"
  /\ call.by \in GeneratorCalls
  /\ find(call.was, call.id) # NoNotebook
  /\ \E res \in Range(call.nb.quizResults) :
       /\ res.quizId \notin Ids(find(call.was, call.id).quizzes)
       /\ res.quizId \in Ids(find(notebooks, call.id).quizzes)
  /\ find(notebooks, call.id) = call.nb


\* C30: whenever a view other than the dashboard is shown, a notebook is
\* selected and it is in the collection; going from the workspace to a
\* studio or back leaves the selection as it was
C30_ViewHasNotebook ==
  /\ [](view # "dashboard"
          => /\ currentNotebookId # None
             /\ currentNotebook # NoNotebook)
  /\ [][view # "dashboard" /\ view' # "dashboard" => currentNotebookId' = currentNotebookId]_vars

\* a studio of the older of two notebooks is shown
C30_Witness ==
  /\ view \in Studios
  /\ Len(notebooks) = 2
  /\ currentNotebookId = notebooks[2].id
  /\ currentNotebookId # notebooks[1].id

====
